---- MODULE Spec2Model ----
(***************************************************************************)
(* SimpleDEX, the constant-product pool of this repository, together with  *)
(* the ERC-20 token code it calls (MockWLD) and the off-chain SwapService  *)
(* helper that quotes and then swaps against it.                           *)
(*                                                                         *)
(* A contract call is one EVM transaction: it runs to completion or        *)
(* reverts, and a revert restores every storage slot the transaction       *)
(* wrote, in every contract.  Each handler below is an operator from the   *)
(* state before the call to an outcome [ok, err, ret, s], where s is the   *)
(* state the call leaves behind.                                           *)
(***************************************************************************)
EXTENDS Integers, Sequences, FiniteSets, TLC

VARIABLES
    reserve0,        \* SimpleDEX.reserve0
    reserve1,        \* SimpleDEX.reserve1
    totalLiquidity,  \* SimpleDEX.totalLiquidity
    liquidity,       \* SimpleDEX.liquidity : address -> shares
    balanceOf,       \* balanceOf[t][a]: token t's balanceOf mapping
    allowance,       \* allowance[t][a]: token t's allowance[a][address(dex)]
    last,            \* the latest transaction: [op, sender, args, to, err, ret, event]
    nOps,            \* number of transactions users have sent to the pool
    helper,          \* the SwapService.swapWLDtoUSDC run: [pc, quote, success, amountOut]
    frame,           \* the swap whose token transfers are done and whose
                     \* reserve update is still to come, if there is one
    lastFaucetClaim, \* MockWLD.lastFaucetClaim : address -> timestamp
    now,             \* block.timestamp of the block being built
    faucetClaims     \* the FaucetClaim events logged so far, with their
                     \* block's timestamp, oldest first

vars == <<reserve0, reserve1, totalLiquidity, liquidity, balanceOf, allowance,
          last, nOps, helper, frame, lastFaucetClaim, now, faucetClaims>>

---------------------------------------------------------------------------
(* Bounds of the model *)

\* transactions users send to the pool in one behaviour
MaxOps == 3

\* transactions users send to the pool while the helper runs
MaxHelperOps == 2

\* transactions sent in a run where the output token calls its recipient back
MaxHookOps == 2

\* pool calls a recipient makes from one callback
MaxNested == 1

\* tokens each user holds (and has approved to the pool) at the start
InitBalance == 1050

Users == {"alice", "bob"}
Dex == "dex"
\* address(this) inside MockWLD, the account the faucet pays from
Wld == "wld"

Addresses == Users \cup {Dex, Wld}
Tokens == {"token0", "token1"}

\* the wallet SwapService signs with
Signer == "bob"

\* (amount0, amount1) pairs offered to addLiquidity
AddArgs == {<<0, 1>>, <<1, 100>>, <<1, 1>>, <<1000, 1000>>, <<500, 400>>}

\* (amountIn, minAmountOut) pairs offered to the swaps
SwapArgs == {<<0, 0>>, <<1, 0>>, <<10, 0>>, <<100, 91>>}

\* transactions sent in a run with read-only calls and plain transfers
MaxViewOps == 2

\* amountIn and reserves given to getAmountOut, amounts sent straight to
\* the pool
ViewAmounts == {0, 100}
ViewReserves == {0, 1000}
TransferAmounts == {0, 7}

\* the largest uint the pricing is run with when its width matters: the
\* contract's uint256, scaled to 31 bits
UintMax == 2147483647

\* amountIn and reserves given to getAmountOut at full width
WideAmounts == {0, 1, 100, 215399, 215400, UintMax}
WideReserves == {0, 1, 1000, 214748, UintMax}

\* largest amount0 of the first deposits tried one by one
MaxFirstAmount == 300

\* amount0 and amount1 offered to a first deposit
FirstAmounts0 == 0 .. MaxFirstAmount \cup {1000}
FirstAmounts1 == {1, 2, 7, 1000}

\* (amountIn, minAmountOut) of the swaps of a run with callbacks
HookSwapArgs == {<<1, 0>>, <<100, 0>>, <<100, 91>>}

\* WLD amounts (in wei) and slippage tolerances given to the helper
HelperAmounts == {100}

---------------------------------------------------------------------------
(* Program constants *)

FEE_BASIS_POINTS == 30
BASIS_POINTS == 10000
DEFAULT_SLIPPAGE == 150

HelperSlippages == {0, DEFAULT_SLIPPAGE}

\* MockWLD's faucet: tokens per claim (100 WLD, in the units of the
\* balances here) and seconds between two claims of one address (1 hours)
faucetAmount == 100
faucetCooldown == 3600

\* block.timestamp when the run starts
StartTime == 1700000000

\* transactions sent to the token in a run with the faucet, and the seconds
\* such a run lasts
MaxFaucetOps == 4
MaxElapsed == 7200

\* amounts offered to fundFaucet, seconds between two blocks
FundAmounts == {0, 100, 250, 2000}
TickSeconds == {1800, 3599, 3600}

\* the deployer of MockWLD, who received the initial supply
Owner == "alice"

\* revert reasons, as the contracts spell them
ErrNone == "ok"
ErrAmounts == "SimpleDEX: Insufficient amounts"
ErrMinted == "SimpleDEX: Insufficient liquidity minted"
ErrLiquidityAmount == "SimpleDEX: Insufficient liquidity amount"
ErrLiquidityBalance == "SimpleDEX: Insufficient liquidity balance"
ErrInput == "SimpleDEX: Insufficient input amount"
ErrLiquidity == "SimpleDEX: Insufficient liquidity"
ErrOutput == "SimpleDEX: Insufficient output amount"
ErrBalance == "MockWLD: insufficient balance"
ErrAllowance == "MockWLD: insufficient allowance"
ErrCooldown == "MockWLD: faucet cooldown not met"
ErrFaucetFunds == "MockWLD: insufficient faucet funds"
ErrPanic == "Panic(0x11)"

---------------------------------------------------------------------------
(* The contracts' storage as one record *)

Cur ==
    [reserve0 |-> reserve0, reserve1 |-> reserve1,
     totalLiquidity |-> totalLiquidity, liquidity |-> liquidity,
     balanceOf |-> balanceOf, allowance |-> allowance,
     lastFaucetClaim |-> lastFaucetClaim]

Store(s) ==
    /\ reserve0' = s.reserve0
    /\ reserve1' = s.reserve1
    /\ totalLiquidity' = s.totalLiquidity
    /\ liquidity' = s.liquidity
    /\ balanceOf' = s.balanceOf
    /\ allowance' = s.allowance
    /\ lastFaucetClaim' = s.lastFaucetClaim

NoEvent == [name |-> "none"]

\* a call that returns ret, having emitted event and left state s
Ok(s, ret, event) ==
    [ok |-> TRUE, err |-> ErrNone, ret |-> ret, event |-> event, s |-> s]

RevertKeepsWrites(pre, partial, err) ==
    [ok |-> FALSE, err |-> err, ret |-> <<>>, event |-> NoEvent, s |-> partial]

\* require(cond, err) failing: the transaction reverts, and every write made
\* since it began (partial) is undone
Revert(pre, partial, err) ==
    [ok |-> FALSE, err |-> err, ret |-> <<>>, event |-> NoEvent, s |-> pre]

---------------------------------------------------------------------------
(* MockWLD: the token code *)

\* transfer(to, amount) called by `from`
transferSyncsReserve(s, t, from, to, amount) ==
    IF s.balanceOf[t][from] < amount THEN Revert(s, s, ErrBalance)
    ELSE
        LET b1 == [s.balanceOf[t] EXCEPT ![from] = @ - amount]
            b2 == [b1 EXCEPT ![to] = @ + amount]
            credit == IF to = Dex THEN amount ELSE 0
        IN Ok([s EXCEPT !.balanceOf[t] = b2,
                        !.reserve0 = IF t = "token0" THEN @ + credit ELSE @,
                        !.reserve1 = IF t = "token1" THEN @ + credit ELSE @],
              <<>>, NoEvent)

transfer(s, t, from, to, amount) ==
    IF s.balanceOf[t][from] < amount THEN Revert(s, s, ErrBalance)
    ELSE
        LET b1 == [s.balanceOf[t] EXCEPT ![from] = @ - amount]
            b2 == [b1 EXCEPT ![to] = @ + amount]
        IN Ok([s EXCEPT !.balanceOf[t] = b2], <<>>, NoEvent)

\* transferFrom(from, to, amount) called by the pool
transferFrom(s, t, from, to, amount) ==
    IF s.balanceOf[t][from] < amount THEN Revert(s, s, ErrBalance)
    ELSE IF s.allowance[t][from] < amount THEN Revert(s, s, ErrAllowance)
    ELSE
        LET b1 == [s.balanceOf[t] EXCEPT ![from] = @ - amount]
            b2 == [b1 EXCEPT ![to] = @ + amount]
        IN Ok([s EXCEPT !.balanceOf[t] = b2,
                        !.allowance[t][from] = @ - amount], <<>>, NoEvent)

\* approve(address(dex), amount) called by `owner`
approve(s, t, owner, amount) ==
    Ok([s EXCEPT !.allowance[t][owner] = amount], <<>>, NoEvent)

---------------------------------------------------------------------------
(* SimpleDEX: pricing *)

getAmountOutFeeOnOutput(amountIn, reserveIn, reserveOut) ==
    IF ~(amountIn > 0) THEN [ok |-> FALSE, err |-> ErrInput, amountOut |-> 0]
    ELSE IF ~(reserveIn > 0 /\ reserveOut > 0)
    THEN [ok |-> FALSE, err |-> ErrLiquidity, amountOut |-> 0]
    ELSE
        LET numerator == amountIn * BASIS_POINTS * reserveOut
            denominator == (reserveIn * BASIS_POINTS) + amountIn * BASIS_POINTS
        IN [ok |-> TRUE, err |-> ErrNone, amountOut |-> numerator \div denominator]

\* getAmountOut(amountIn, reserveIn, reserveOut): [ok, err, amountOut]
getAmountOut(amountIn, reserveIn, reserveOut) ==
    IF ~(amountIn > 0) THEN [ok |-> FALSE, err |-> ErrInput, amountOut |-> 0]
    ELSE IF ~(reserveIn > 0 /\ reserveOut > 0)
    THEN [ok |-> FALSE, err |-> ErrLiquidity, amountOut |-> 0]
    ELSE
        LET amountInWithFee == amountIn * (BASIS_POINTS - FEE_BASIS_POINTS)
            numerator == amountInWithFee * reserveOut
            denominator == (reserveIn * BASIS_POINTS) + amountInWithFee
        IN [ok |-> TRUE, err |-> ErrNone, amountOut |-> numerator \div denominator]

swap0AmountOutRoundsUp(amountIn, r0, r1) ==
    LET amountInWithFee == amountIn * (BASIS_POINTS - FEE_BASIS_POINTS)
        numerator == amountInWithFee * r1
        denominator == (r0 * BASIS_POINTS) + amountInWithFee
    IN (numerator + denominator - 1) \div denominator

swap0AmountOutLinearPrice(amountIn, r0, r1) ==
    LET amountInWithFee == amountIn * (BASIS_POINTS - FEE_BASIS_POINTS)
        numerator == amountInWithFee * r1
        denominator == r0 * BASIS_POINTS
    IN numerator \div denominator

swap0AmountOutFeeFirst(amountIn, r0, r1) ==
    LET amountInAfterFee ==
            (amountIn * (BASIS_POINTS - FEE_BASIS_POINTS)) \div BASIS_POINTS
    IN (amountInAfterFee * r1) \div (r0 + amountInAfterFee)

\* the pricing lines of swapToken0ForToken1, on the reserves it reads
swap0AmountOut(amountIn, r0, r1) ==
    LET amountInWithFee == amountIn * (BASIS_POINTS - FEE_BASIS_POINTS)
        numerator == amountInWithFee * r1
        denominator == (r0 * BASIS_POINTS) + amountInWithFee
    IN numerator \div denominator

swap1AmountOutWrongReserve(amountIn, r0, r1) ==
    LET amountInWithFee == amountIn * (BASIS_POINTS - FEE_BASIS_POINTS)
        numerator == amountInWithFee * r1
        denominator == (r1 * BASIS_POINTS) + amountInWithFee
    IN numerator \div denominator

\* the pricing lines of swapToken1ForToken0, on the reserves it reads
swap1AmountOut(amountIn, r0, r1) ==
    LET amountInWithFee == amountIn * (BASIS_POINTS - FEE_BASIS_POINTS)
        numerator == amountInWithFee * r0
        denominator == (r1 * BASIS_POINTS) + amountInWithFee
    IN numerator \div denominator

RECURSIVE sqrtLoop(_, _, _)
sqrtLoop(y, z, x) ==
    IF x < z THEN sqrtLoop(y, x, (y \div x + x) \div 2) ELSE z

sqrtNoSmallCase(y) == sqrtLoop(y, y, y \div 2 + 1)

\* sqrt(y), the Babylonian method
sqrt(y) ==
    IF y > 3 THEN sqrtLoop(y, y, y \div 2 + 1)
    ELSE IF y # 0 THEN 1
    ELSE 0

\* floor(num * 1e18 / den) as <<q, d1, ..., d6>>, standing for
\* q * 1e18 + d1 * 1e15 + d2 * 1e12 + d3 * 1e9 + d4 * 1e6 + d5 * 1e3 + d6,
\* by long division in base 1000
RECURSIVE Digits1000(_, _, _)
Digits1000(rem, den, n) ==
    IF n = 0 THEN <<>>
    ELSE <<(rem * 1000) \div den>> \o Digits1000((rem * 1000) % den, den, n - 1)

Scaled1e18(num, den) == <<num \div den>> \o Digits1000(num % den, den, 6)

\* getExchangeRate()
getExchangeRate(s) ==
    IF s.reserve1 = 0 THEN Ok(s, <<0, 0, 0, 0, 0, 0, 0>>, NoEvent)
    ELSE Ok(s, Scaled1e18(s.reserve0, s.reserve1), NoEvent)

\* symbol() of the pool's tokens: MockWLD and the USDC the service names
symbol(t) == IF t = "token0" THEN "WLD" ELSE "USDC"

\* getPoolInfo()
getPoolInfo(s) ==
    Ok(s, <<s.reserve0, s.reserve1, s.totalLiquidity,
            symbol("token0"), symbol("token1")>>, NoEvent)

\* getAmountOut called from outside: its value or its revert
getAmountOutCall(s, amountIn, reserveIn, reserveOut) ==
    LET q == getAmountOut(amountIn, reserveIn, reserveOut) IN
    IF q.ok THEN Ok(s, <<q.amountOut>>, NoEvent) ELSE Revert(s, s, q.err)

\* a * b and a + b in Solidity 0.8 checked arithmetic: [ok, v]
checkedMul(a, b) ==
    IF b # 0 /\ a > UintMax \div b THEN [ok |-> FALSE, v |-> 0]
    ELSE [ok |-> TRUE, v |-> a * b]

checkedAdd(a, b) ==
    IF a > UintMax - b THEN [ok |-> FALSE, v |-> 0]
    ELSE [ok |-> TRUE, v |-> a + b]

\* getAmountOut with every intermediate result held in a uint
getAmountOutUint(s, amountIn, reserveIn, reserveOut) ==
    IF ~(amountIn > 0) THEN Revert(s, s, ErrInput)
    ELSE IF ~(reserveIn > 0 /\ reserveOut > 0) THEN Revert(s, s, ErrLiquidity)
    ELSE
        LET amountInWithFee == checkedMul(amountIn, BASIS_POINTS - FEE_BASIS_POINTS)
            numerator == checkedMul(amountInWithFee.v, reserveOut)
            scaledReserve == checkedMul(reserveIn, BASIS_POINTS)
            denominator == checkedAdd(scaledReserve.v, amountInWithFee.v)
        IN
        IF ~amountInWithFee.ok \/ ~numerator.ok \/ ~scaledReserve.ok
              \/ ~denominator.ok
        THEN Revert(s, s, ErrPanic)
        ELSE Ok(s, <<numerator.v \div denominator.v>>, NoEvent)

faucetForgetsClaimTime(s, sender, timestamp) ==
    IF ~(timestamp >= s.lastFaucetClaim[sender] + faucetCooldown)
    THEN Revert(s, s, ErrCooldown)
    ELSE IF ~(s.balanceOf["token0"][Wld] >= faucetAmount)
    THEN Revert(s, s, ErrFaucetFunds)
    ELSE Ok([s EXCEPT !.balanceOf["token0"][Wld] = @ - faucetAmount,
                      !.balanceOf["token0"][sender] = @ + faucetAmount],
            <<>>,
            [name |-> "FaucetClaim", recipient |-> sender,
             amount |-> faucetAmount])

\* faucet() called by sender in a block stamped timestamp
faucet(s, sender, timestamp) ==
    IF ~(timestamp >= s.lastFaucetClaim[sender] + faucetCooldown)
    THEN Revert(s, s, ErrCooldown)
    ELSE IF ~(s.balanceOf["token0"][Wld] >= faucetAmount)
    THEN Revert(s, s, ErrFaucetFunds)
    ELSE Ok([s EXCEPT !.lastFaucetClaim[sender] = timestamp,
                      !.balanceOf["token0"][Wld] = @ - faucetAmount,
                      !.balanceOf["token0"][sender] = @ + faucetAmount],
            <<>>,
            [name |-> "FaucetClaim", recipient |-> sender,
             amount |-> faucetAmount])

\* fundFaucet(amount) called by sender
fundFaucet(s, sender, amount) ==
    IF ~(s.balanceOf["token0"][sender] >= amount) THEN Revert(s, s, ErrBalance)
    ELSE Ok([s EXCEPT !.balanceOf["token0"][sender] = @ - amount,
                      !.balanceOf["token0"][Wld] = @ + amount],
            <<>>,
            [name |-> "Transfer", from |-> sender, to |-> Wld,
             value |-> amount])

---------------------------------------------------------------------------
(* SimpleDEX: liquidity *)

liquidityToMintTakesLarger(s, amount0, amount1) ==
    IF s.totalLiquidity = 0 THEN sqrt(amount0 * amount1)
    ELSE
        LET liquidity0 == (amount0 * s.totalLiquidity) \div s.reserve0
            liquidity1 == (amount1 * s.totalLiquidity) \div s.reserve1
        IN IF liquidity0 < liquidity1 THEN liquidity1 ELSE liquidity0

\* the shares addLiquidity mints for (amount0, amount1) on state s
liquidityToMint(s, amount0, amount1) ==
    IF s.totalLiquidity = 0 THEN sqrt(amount0 * amount1)
    ELSE
        LET liquidity0 == (amount0 * s.totalLiquidity) \div s.reserve0
            liquidity1 == (amount1 * s.totalLiquidity) \div s.reserve1
        IN IF liquidity0 < liquidity1 THEN liquidity0 ELSE liquidity1

addUpdateForgetsTotal(s, amount0, amount1, to, liquidityMinted) ==
    [s EXCEPT !.liquidity[to] = @ + liquidityMinted,
              !.reserve0 = @ + amount0,
              !.reserve1 = @ + amount1]

\* the state update that ends addLiquidity
addUpdate(s, amount0, amount1, to, liquidityMinted) ==
    [s EXCEPT !.liquidity[to] = @ + liquidityMinted,
              !.totalLiquidity = @ + liquidityMinted,
              !.reserve0 = @ + amount0,
              !.reserve1 = @ + amount1]

addLiquidityNoAmountCheck(s, sender, amount0, amount1, to) ==
    LET t0 == transferFrom(s, "token0", sender, Dex, amount0) IN
    IF ~t0.ok THEN Revert(s, t0.s, t0.err)
    ELSE
        LET t1 == transferFrom(t0.s, "token1", sender, Dex, amount1) IN
        IF ~t1.ok THEN Revert(s, t1.s, t1.err)
        ELSE IF t1.s.totalLiquidity # 0
                /\ (t1.s.reserve0 = 0 \/ t1.s.reserve1 = 0)
        THEN Revert(s, t1.s, ErrPanic)
        ELSE
            LET liquidityMinted == liquidityToMint(t1.s, amount0, amount1) IN
            IF ~(liquidityMinted > 0) THEN Revert(s, t1.s, ErrMinted)
            ELSE Ok(addUpdate(t1.s, amount0, amount1, to, liquidityMinted),
                    <<liquidityMinted>>,
                    [name |-> "LiquidityAdded", provider |-> to,
                     amount0 |-> amount0, amount1 |-> amount1,
                     liquidity |-> liquidityMinted])

addLiquidity(s, sender, amount0, amount1, to) ==
    IF ~(amount0 > 0 /\ amount1 > 0) THEN Revert(s, s, ErrAmounts)
    ELSE
        LET t0 == transferFrom(s, "token0", sender, Dex, amount0) IN
        IF ~t0.ok THEN Revert(s, t0.s, t0.err)
        ELSE
            LET t1 == transferFrom(t0.s, "token1", sender, Dex, amount1) IN
            IF ~t1.ok THEN Revert(s, t1.s, t1.err)
            ELSE IF t1.s.totalLiquidity # 0
                    /\ (t1.s.reserve0 = 0 \/ t1.s.reserve1 = 0)
            THEN Revert(s, t1.s, ErrPanic)
            ELSE
                LET liquidityMinted == liquidityToMint(t1.s, amount0, amount1) IN
                IF ~(liquidityMinted > 0) THEN Revert(s, t1.s, ErrMinted)
                ELSE Ok(addUpdate(t1.s, amount0, amount1, to, liquidityMinted),
                        <<liquidityMinted>>,
                        [name |-> "LiquidityAdded", provider |-> to,
                         amount0 |-> amount0, amount1 |-> amount1,
                         liquidity |-> liquidityMinted])

removeUpdateKeepsShares(s, sender, liquidityAmount, amount0, amount1) ==
    [s EXCEPT !.totalLiquidity = @ - liquidityAmount,
              !.reserve0 = @ - amount0,
              !.reserve1 = @ - amount1]

removeUpdateForgetsTotal(s, sender, liquidityAmount, amount0, amount1) ==
    [s EXCEPT !.liquidity[sender] = @ - liquidityAmount,
              !.reserve0 = @ - amount0,
              !.reserve1 = @ - amount1]

\* the state update of removeLiquidity
removeUpdate(s, sender, liquidityAmount, amount0, amount1) ==
    [s EXCEPT !.liquidity[sender] = @ - liquidityAmount,
              !.totalLiquidity = @ - liquidityAmount,
              !.reserve0 = @ - amount0,
              !.reserve1 = @ - amount1]

removeLiquidityNoBalanceCheck(s, sender, liquidityAmount, to) ==
    IF ~(liquidityAmount > 0) THEN Revert(s, s, ErrLiquidityAmount)
    ELSE IF s.totalLiquidity = 0 THEN Revert(s, s, ErrPanic)
    ELSE
        LET amount0 == (liquidityAmount * s.reserve0) \div s.totalLiquidity
            amount1 == (liquidityAmount * s.reserve1) \div s.totalLiquidity
        IN
        IF ~(amount0 > 0 /\ amount1 > 0) THEN Revert(s, s, ErrAmounts)
        ELSE IF s.liquidity[sender] < liquidityAmount
                \/ s.totalLiquidity < liquidityAmount
                \/ s.reserve0 < amount0 \/ s.reserve1 < amount1
        THEN Revert(s, s, ErrPanic)
        ELSE
            LET u == removeUpdate(s, sender, liquidityAmount, amount0, amount1)
                t0 == transfer(u, "token0", Dex, to, amount0)
            IN
            IF ~t0.ok THEN Revert(s, t0.s, t0.err)
            ELSE
                LET t1 == transfer(t0.s, "token1", Dex, to, amount1) IN
                IF ~t1.ok THEN Revert(s, t1.s, t1.err)
                ELSE Ok(t1.s, <<amount0, amount1>>,
                        [name |-> "LiquidityRemoved", provider |-> to,
                         amount0 |-> amount0, amount1 |-> amount1,
                         liquidity |-> liquidityAmount])

removeLiquidityBurnsTo(s, sender, liquidityAmount, to) ==
    IF ~(liquidityAmount > 0) THEN Revert(s, s, ErrLiquidityAmount)
    ELSE IF ~(s.liquidity[to] >= liquidityAmount)
    THEN Revert(s, s, ErrLiquidityBalance)
    ELSE IF s.totalLiquidity = 0 THEN Revert(s, s, ErrPanic)
    ELSE
        LET amount0 == (liquidityAmount * s.reserve0) \div s.totalLiquidity
            amount1 == (liquidityAmount * s.reserve1) \div s.totalLiquidity
        IN
        IF ~(amount0 > 0 /\ amount1 > 0) THEN Revert(s, s, ErrAmounts)
        ELSE IF s.totalLiquidity < liquidityAmount THEN Revert(s, s, ErrPanic)
        ELSE
            LET u == removeUpdate(s, to, liquidityAmount, amount0, amount1)
                t0 == transfer(u, "token0", Dex, to, amount0)
            IN
            IF ~t0.ok THEN Revert(s, t0.s, t0.err)
            ELSE
                LET t1 == transfer(t0.s, "token1", Dex, to, amount1) IN
                IF ~t1.ok THEN Revert(s, t1.s, t1.err)
                ELSE Ok(t1.s, <<amount0, amount1>>,
                        [name |-> "LiquidityRemoved", provider |-> to,
                         amount0 |-> amount0, amount1 |-> amount1,
                         liquidity |-> liquidityAmount])

removeLiquidity(s, sender, liquidityAmount, to) ==
    IF ~(liquidityAmount > 0) THEN Revert(s, s, ErrLiquidityAmount)
    ELSE IF ~(s.liquidity[sender] >= liquidityAmount)
    THEN Revert(s, s, ErrLiquidityBalance)
    ELSE IF s.totalLiquidity = 0 THEN Revert(s, s, ErrPanic)
    ELSE
        LET amount0 == (liquidityAmount * s.reserve0) \div s.totalLiquidity
            amount1 == (liquidityAmount * s.reserve1) \div s.totalLiquidity
        IN
        IF ~(amount0 > 0 /\ amount1 > 0) THEN Revert(s, s, ErrAmounts)
        ELSE IF s.totalLiquidity < liquidityAmount THEN Revert(s, s, ErrPanic)
        ELSE
            LET u == removeUpdate(s, sender, liquidityAmount, amount0, amount1)
                t0 == transfer(u, "token0", Dex, to, amount0)
            IN
            IF ~t0.ok THEN Revert(s, t0.s, t0.err)
            ELSE
                LET t1 == transfer(t0.s, "token1", Dex, to, amount1) IN
                IF ~t1.ok THEN Revert(s, t1.s, t1.err)
                ELSE Ok(t1.s, <<amount0, amount1>>,
                        [name |-> "LiquidityRemoved", provider |-> to,
                         amount0 |-> amount0, amount1 |-> amount1,
                         liquidity |-> liquidityAmount])

---------------------------------------------------------------------------
(* SimpleDEX: swaps *)

swap0BeginNoSlippageCheck(s, sender, amountIn, minAmountOut, to) ==
    IF ~(amountIn > 0) THEN Revert(s, s, ErrInput)
    ELSE IF ~(s.reserve0 > 0 /\ s.reserve1 > 0) THEN Revert(s, s, ErrLiquidity)
    ELSE
        LET amountOut == swap0AmountOut(amountIn, s.reserve0, s.reserve1) IN
        IF ~(amountOut < s.reserve1) THEN Revert(s, s, ErrLiquidity)
        ELSE
            LET t0 == transferFrom(s, "token0", sender, Dex, amountIn) IN
            IF ~t0.ok THEN Revert(s, t0.s, t0.err)
            ELSE
                LET t1 == transfer(t0.s, "token1", Dex, to, amountOut) IN
                IF ~t1.ok THEN Revert(s, t1.s, t1.err)
                ELSE Ok(t1.s, <<amountOut>>, NoEvent)

\* swapToken0ForToken1 up to and including its two token transfers;
\* ret is <<amountOut>>
swap0Begin(s, sender, amountIn, minAmountOut, to) ==
    IF ~(amountIn > 0) THEN Revert(s, s, ErrInput)
    ELSE IF ~(s.reserve0 > 0 /\ s.reserve1 > 0) THEN Revert(s, s, ErrLiquidity)
    ELSE
        LET amountOut == swap0AmountOut(amountIn, s.reserve0, s.reserve1) IN
        IF ~(amountOut >= minAmountOut) THEN Revert(s, s, ErrOutput)
        ELSE IF ~(amountOut < s.reserve1) THEN Revert(s, s, ErrLiquidity)
        ELSE
            LET t0 == transferFrom(s, "token0", sender, Dex, amountIn) IN
            IF ~t0.ok THEN Revert(s, t0.s, t0.err)
            ELSE
                LET t1 == transfer(t0.s, "token1", Dex, to, amountOut) IN
                IF ~t1.ok THEN Revert(s, t1.s, t1.err)
                ELSE Ok(t1.s, <<amountOut>>, NoEvent)

swap0EndFeeLeavesPool(pre, s, sender, amountIn, amountOut) ==
    IF s.reserve1 < amountOut THEN Revert(pre, s, ErrPanic)
    ELSE Ok([s EXCEPT !.reserve0 = @ + (amountIn * (BASIS_POINTS - FEE_BASIS_POINTS))
                                           \div BASIS_POINTS,
                      !.reserve1 = @ - amountOut],
            <<amountOut>>,
            [name |-> "TokensSwapped", user |-> sender,
             tokenIn |-> "token0", tokenOut |-> "token1",
             amountIn |-> amountIn, amountOut |-> amountOut])

swap0EndMixesAmounts(pre, s, sender, amountIn, amountOut) ==
    IF s.reserve1 < amountIn THEN Revert(pre, s, ErrPanic)
    ELSE Ok([s EXCEPT !.reserve0 = @ + amountIn, !.reserve1 = @ - amountIn],
            <<amountOut>>,
            [name |-> "TokensSwapped", user |-> sender,
             tokenIn |-> "token0", tokenOut |-> "token1",
             amountIn |-> amountIn, amountOut |-> amountOut])

\* "Update reserves" of swapToken0ForToken1, on the reserves then stored
swap0End(pre, s, sender, amountIn, amountOut) ==
    IF s.reserve1 < amountOut THEN Revert(pre, s, ErrPanic)
    ELSE Ok([s EXCEPT !.reserve0 = @ + amountIn, !.reserve1 = @ - amountOut],
            <<amountOut>>,
            [name |-> "TokensSwapped", user |-> sender,
             tokenIn |-> "token0", tokenOut |-> "token1",
             amountIn |-> amountIn, amountOut |-> amountOut])

swapToken0ForToken1(s, sender, amountIn, minAmountOut, to) ==
    LET b == swap0Begin(s, sender, amountIn, minAmountOut, to) IN
    IF ~b.ok THEN b ELSE swap0End(s, b.s, sender, amountIn, b.ret[1])

swap1BeginNoLiquidityCheck(s, sender, amountIn, minAmountOut, to) ==
    IF ~(amountIn > 0) THEN Revert(s, s, ErrInput)
    ELSE
        LET amountOut == swap1AmountOut(amountIn, s.reserve0, s.reserve1) IN
        IF ~(amountOut >= minAmountOut) THEN Revert(s, s, ErrOutput)
        ELSE IF ~(amountOut < s.reserve0) THEN Revert(s, s, ErrLiquidity)
        ELSE
            LET t1 == transferFrom(s, "token1", sender, Dex, amountIn) IN
            IF ~t1.ok THEN Revert(s, t1.s, t1.err)
            ELSE
                LET t0 == transfer(t1.s, "token0", Dex, to, amountOut) IN
                IF ~t0.ok THEN Revert(s, t0.s, t0.err)
                ELSE Ok(t0.s, <<amountOut>>, NoEvent)

swap1BeginRefusesZeroOutput(s, sender, amountIn, minAmountOut, to) ==
    IF ~(amountIn > 0) THEN Revert(s, s, ErrInput)
    ELSE IF ~(s.reserve0 > 0 /\ s.reserve1 > 0) THEN Revert(s, s, ErrLiquidity)
    ELSE
        LET amountOut == swap1AmountOut(amountIn, s.reserve0, s.reserve1) IN
        IF ~(amountOut > 0 /\ amountOut >= minAmountOut)
        THEN Revert(s, s, ErrOutput)
        ELSE IF ~(amountOut < s.reserve0) THEN Revert(s, s, ErrLiquidity)
        ELSE
            LET t1 == transferFrom(s, "token1", sender, Dex, amountIn) IN
            IF ~t1.ok THEN Revert(s, t1.s, t1.err)
            ELSE
                LET t0 == transfer(t1.s, "token0", Dex, to, amountOut) IN
                IF ~t0.ok THEN Revert(s, t0.s, t0.err)
                ELSE Ok(t0.s, <<amountOut>>, NoEvent)

swap1Begin(s, sender, amountIn, minAmountOut, to) ==
    IF ~(amountIn > 0) THEN Revert(s, s, ErrInput)
    ELSE IF ~(s.reserve0 > 0 /\ s.reserve1 > 0) THEN Revert(s, s, ErrLiquidity)
    ELSE
        LET amountOut == swap1AmountOut(amountIn, s.reserve0, s.reserve1) IN
        IF ~(amountOut >= minAmountOut) THEN Revert(s, s, ErrOutput)
        ELSE IF ~(amountOut < s.reserve0) THEN Revert(s, s, ErrLiquidity)
        ELSE
            LET t1 == transferFrom(s, "token1", sender, Dex, amountIn) IN
            IF ~t1.ok THEN Revert(s, t1.s, t1.err)
            ELSE
                LET t0 == transfer(t1.s, "token0", Dex, to, amountOut) IN
                IF ~t0.ok THEN Revert(s, t0.s, t0.err)
                ELSE Ok(t0.s, <<amountOut>>, NoEvent)

swap1EndMixesAmounts(pre, s, sender, amountIn, amountOut) ==
    IF s.reserve0 < amountIn THEN Revert(pre, s, ErrPanic)
    ELSE Ok([s EXCEPT !.reserve1 = @ + amountIn, !.reserve0 = @ - amountIn],
            <<amountOut>>,
            [name |-> "TokensSwapped", user |-> sender,
             tokenIn |-> "token1", tokenOut |-> "token0",
             amountIn |-> amountIn, amountOut |-> amountOut])

swap1End(pre, s, sender, amountIn, amountOut) ==
    IF s.reserve0 < amountOut THEN Revert(pre, s, ErrPanic)
    ELSE Ok([s EXCEPT !.reserve1 = @ + amountIn, !.reserve0 = @ - amountOut],
            <<amountOut>>,
            [name |-> "TokensSwapped", user |-> sender,
             tokenIn |-> "token1", tokenOut |-> "token0",
             amountIn |-> amountIn, amountOut |-> amountOut])

swapToken1ForToken0(s, sender, amountIn, minAmountOut, to) ==
    LET b == swap1Begin(s, sender, amountIn, minAmountOut, to) IN
    IF ~b.ok THEN b ELSE swap1End(s, b.s, sender, amountIn, b.ret[1])

---------------------------------------------------------------------------
(* SwapService: the off-chain helper *)

NoQuote ==
    [inputAmountWei |-> 0, expectedOutputWei |-> 0, minOutputWei |-> 0,
     reserve0 |-> 0, reserve1 |-> 0]

\* minOutput of getSwapQuote
minOutput(expectedOutput, slippageBasisPoints) ==
    (expectedOutput * (10000 - slippageBasisPoints)) \div 10000

\* getSwapQuote(wldAmount, slippageBasisPoints) on reserves (r0, r1):
\* [ok, quote]; a reverting getAmountOut makes it throw
getSwapQuote(wldAmountWei, slippageBasisPoints, r0, r1) ==
    LET e == getAmountOut(wldAmountWei, r0, r1) IN
    IF ~e.ok THEN [ok |-> FALSE, quote |-> NoQuote]
    ELSE [ok |-> TRUE,
          quote |-> [inputAmountWei |-> wldAmountWei,
                     expectedOutputWei |-> e.amountOut,
                     minOutputWei |-> minOutput(e.amountOut, slippageBasisPoints),
                     reserve0 |-> r0, reserve1 |-> r1]]

\* testQuoteAccuracy's manual calculation of the expected output
manualCalculation(inputWei, wldReserveWei, usdcReserveWei) ==
    LET feeAdjustedInput == (inputWei * 997) \div 1000
        numerator == feeAdjustedInput * usdcReserveWei
        denominator == wldReserveWei * 1000 + feeAdjustedInput
    IN numerator \div denominator

\* the contracts' storage after deployment: an empty pool, every user holding
\* InitBalance of each token and having approved the pool for it
Constructed ==
    [reserve0 |-> 0, reserve1 |-> 0, totalLiquidity |-> 0,
     liquidity |-> [a \in Addresses |-> 0],
     balanceOf |-> [t \in Tokens |->
                      [a \in Addresses |-> IF a \in Users THEN InitBalance ELSE 0]],
     allowance |-> [t \in Tokens |->
                      [a \in Addresses |-> IF a \in Users THEN InitBalance ELSE 0]],
     lastFaucetClaim |-> [a \in Addresses |-> 0]]

\* no swap is between its transfers and its reserve update
NoFrame ==
    [open |-> FALSE, op |-> "none", pre |-> Constructed, sender |-> Dex,
     amountIn |-> 0, minAmountOut |-> 0, amountOut |-> 0, to |-> Dex, nested |-> 0]

---------------------------------------------------------------------------
(* Initial state *)

Init ==
    /\ reserve0 = Constructed.reserve0
    /\ reserve1 = Constructed.reserve1
    /\ totalLiquidity = Constructed.totalLiquidity
    /\ liquidity = Constructed.liquidity
    /\ balanceOf = Constructed.balanceOf
    /\ allowance = Constructed.allowance
    /\ lastFaucetClaim = Constructed.lastFaucetClaim
    /\ now = StartTime
    /\ faucetClaims = <<>>
    /\ last = [op |-> "constructor", sender |-> Dex, args |-> <<>>, to |-> Dex,
               err |-> ErrNone, ret |-> <<>>, event |-> NoEvent]
    /\ nOps = 0
    /\ helper = [pc |-> "idle", quote |-> NoQuote, success |-> FALSE, amountOut |-> 0]
    /\ frame = NoFrame

---------------------------------------------------------------------------
(* Transactions sent to the pool *)

\* the call's outcome r becomes the new state; args are the amounts the
\* call was given, `to` its address argument
Finish(op, sender, args, to, r) ==
    /\ Store(r.s)
    /\ last' = [op |-> op, sender |-> sender, args |-> args, to |-> to,
                err |-> r.err, ret |-> r.ret, event |-> r.event]

Direct(op, sender, args, to, r) ==
    /\ ~frame.open
    /\ nOps < MaxOps
    /\ Finish(op, sender, args, to, r)
    /\ nOps' = nOps + 1
    /\ UNCHANGED <<helper, frame, now, faucetClaims>>

CallAddLiquidity(sender, amount0, amount1, to) ==
    Direct("addLiquidity", sender, <<amount0, amount1>>, to,
           addLiquidity(Cur, sender, amount0, amount1, to))

CallRemoveLiquidity(sender, liquidityAmount, to) ==
    Direct("removeLiquidity", sender, <<liquidityAmount>>, to,
           removeLiquidity(Cur, sender, liquidityAmount, to))

CallSwapToken0ForToken1(sender, amountIn, minAmountOut, to) ==
    Direct("swapToken0ForToken1", sender, <<amountIn, minAmountOut>>, to,
           swapToken0ForToken1(Cur, sender, amountIn, minAmountOut, to))

CallSwapToken1ForToken0(sender, amountIn, minAmountOut, to) ==
    Direct("swapToken1ForToken0", sender, <<amountIn, minAmountOut>>, to,
           swapToken1ForToken0(Cur, sender, amountIn, minAmountOut, to))

\* shares a caller may ask to burn: none, one, all it holds, one too many
RemoveAmounts(sender) == {0, 1, liquidity[sender], liquidity[sender] + 1}

\* minAmountOut values tried with (amountIn, m): m itself and the pool's
\* current quote for amountIn
MinOuts(amountIn, m, reserveIn, reserveOut) ==
    {m, getAmountOut(amountIn, reserveIn, reserveOut).amountOut}

---------------------------------------------------------------------------
(* SwapService.swapWLDtoUSDC, one step per awaited request *)

\* getSwapQuote: read the reserves, price the trade
HelperQuote(wldAmountWei, slippageBasisPoints) ==
    /\ ~frame.open
    /\ helper.pc = "idle"
    /\ LET q == getSwapQuote(wldAmountWei, slippageBasisPoints, reserve0, reserve1) IN
         helper' = IF q.ok THEN [helper EXCEPT !.pc = "quoted", !.quote = q.quote]
                   ELSE [helper EXCEPT !.pc = "done"]
    /\ UNCHANGED <<reserve0, reserve1, totalLiquidity, liquidity, balanceOf,
                   allowance, last, nOps, frame, lastFaucetClaim, now,
                   faucetClaims>>

\* check the wallet's WLD balance, approve the pool if the allowance is short
HelperApprove ==
    /\ ~frame.open
    /\ helper.pc = "quoted"
    /\ LET requiredAmount == helper.quote.inputAmountWei IN
         IF balanceOf["token0"][Signer] < requiredAmount
         THEN /\ helper' = [helper EXCEPT !.pc = "done"]
              /\ UNCHANGED <<allowance, last>>
         ELSE IF allowance["token0"][Signer] < requiredAmount
         THEN /\ helper' = [helper EXCEPT !.pc = "approved"]
              /\ allowance' = approve(Cur, "token0", Signer, requiredAmount).s.allowance
              /\ last' = [op |-> "approve", sender |-> Signer,
                           args |-> <<requiredAmount>>, to |-> Dex,
                           err |-> ErrNone, ret |-> <<>>, event |-> NoEvent]
         ELSE /\ helper' = [helper EXCEPT !.pc = "approved"]
              /\ UNCHANGED <<allowance, last>>
    /\ UNCHANGED <<reserve0, reserve1, totalLiquidity, liquidity, balanceOf, nOps,
                   frame, lastFaucetClaim, now, faucetClaims>>

\* send swapToken0ForToken1(requiredAmount, quote.minOutputWei, signer)
HelperSwap ==
    /\ ~frame.open
    /\ helper.pc = "approved"
    /\ LET r == swapToken0ForToken1(Cur, Signer, helper.quote.inputAmountWei,
                                    helper.quote.minOutputWei, Signer) IN
         /\ Finish("swapToken0ForToken1", Signer,
                   <<helper.quote.inputAmountWei, helper.quote.minOutputWei>>,
                   Signer, r)
         /\ helper' = [helper EXCEPT !.pc = "done", !.success = r.ok,
                                      !.amountOut = IF r.ok THEN r.ret[1] ELSE 0]
    /\ UNCHANGED <<nOps, frame, now, faucetClaims>>

---------------------------------------------------------------------------

Next ==
    \/ \E sender \in Users, a \in AddArgs, to \in Users :
           CallAddLiquidity(sender, a[1], a[2], to)
    \/ \E sender \in Users, to \in Users :
           \E liquidityAmount \in RemoveAmounts(sender) :
               CallRemoveLiquidity(sender, liquidityAmount, to)
    \/ \E sender \in Users, a \in SwapArgs, to \in Users :
           \E m \in MinOuts(a[1], a[2], reserve0, reserve1) :
               CallSwapToken0ForToken1(sender, a[1], m, to)
    \/ \E sender \in Users, a \in SwapArgs, to \in Users :
           \E m \in MinOuts(a[1], a[2], reserve1, reserve0) :
               CallSwapToken1ForToken0(sender, a[1], m, to)

\* the pool and its users
Spec == Init /\ [][Next]_vars

NextHelper ==
    \/ nOps < MaxHelperOps /\ Next
    \/ \E w \in HelperAmounts, sl \in HelperSlippages : HelperQuote(w, sl)
    \/ HelperApprove
    \/ HelperSwap

\* the pool, its users and one run of SwapService.swapWLDtoUSDC
SpecHelper == Init /\ [][NextHelper]_vars

\* deposits into the pool while it has no shares
NextFirstDeposit ==
    \E sender \in Users, amount0 \in FirstAmounts0, amount1 \in FirstAmounts1,
       to \in Users :
        /\ totalLiquidity = 0
        /\ CallAddLiquidity(sender, amount0, amount1, to)

\* first deposits of many sizes
SpecFirstDeposit == Init /\ [][NextFirstDeposit]_vars

---------------------------------------------------------------------------
(* Read-only calls of the pool, and tokens sent straight to its address *)

\* an eth_call: no transaction, the outcome is only reported
View(op, sender, args, r) ==
    /\ ~frame.open
    /\ Finish(op, sender, args, Dex, r)
    /\ UNCHANGED <<nOps, helper, frame, now, faucetClaims>>

CallGetAmountOut(sender, amountIn, reserveIn, reserveOut) ==
    View("getAmountOut", sender, <<amountIn, reserveIn, reserveOut>>,
         getAmountOutCall(Cur, amountIn, reserveIn, reserveOut))

CallGetPoolInfo(sender) ==
    View("getPoolInfo", sender, <<>>, getPoolInfo(Cur))

CallGetExchangeRate(sender) ==
    View("getExchangeRate", sender, <<>>, getExchangeRate(Cur))

\* token t's transfer(address(dex), amount) sent by a user
CallTransferToPool(t, sender, amount) ==
    /\ ~frame.open
    /\ nOps < MaxViewOps
    /\ Finish("transfer", sender, <<amount>>, Dex,
              transfer(Cur, t, sender, Dex, amount))
    /\ nOps' = nOps + 1
    /\ UNCHANGED <<helper, frame, now, faucetClaims>>

NextViews ==
    \/ nOps < MaxViewOps /\ Next
    \/ \E sender \in Users, amountIn \in ViewAmounts,
          reserveIn \in ViewReserves, reserveOut \in ViewReserves :
           CallGetAmountOut(sender, amountIn, reserveIn, reserveOut)
    \/ \E sender \in Users : CallGetPoolInfo(sender)
    \/ \E sender \in Users : CallGetExchangeRate(sender)
    \/ \E t \in Tokens, sender \in Users, amount \in TransferAmounts :
           CallTransferToPool(t, sender, amount)

\* the pool, its users, read-only calls and plain token transfers
SpecViews == Init /\ [][NextViews]_vars

\* faucet() sent by a user; a claim that succeeds is logged
CallFaucet(sender) ==
    /\ ~frame.open
    /\ nOps < MaxFaucetOps
    /\ LET r == faucet(Cur, sender, now) IN
         /\ Finish("faucet", sender, <<>>, sender, r)
         /\ faucetClaims' =
                IF r.ok
                THEN Append(faucetClaims, [recipient |-> sender, time |-> now])
                ELSE faucetClaims
    /\ nOps' = nOps + 1
    /\ UNCHANGED <<helper, frame, now>>

\* fundFaucet(amount) sent by a user
CallFundFaucet(sender, amount) ==
    /\ ~frame.open
    /\ nOps < MaxFaucetOps
    /\ Finish("fundFaucet", sender, <<amount>>, Wld,
              fundFaucet(Cur, sender, amount))
    /\ nOps' = nOps + 1
    /\ UNCHANGED <<helper, frame, now, faucetClaims>>

\* the next block is stamped dt seconds later
Tick(dt) ==
    /\ ~frame.open
    /\ now + dt <= StartTime + MaxElapsed
    /\ now' = now + dt
    /\ UNCHANGED <<reserve0, reserve1, totalLiquidity, liquidity, balanceOf,
                   allowance, last, nOps, helper, frame, lastFaucetClaim,
                   faucetClaims>>

NextFaucet ==
    \/ \E sender \in Users : CallFaucet(sender)
    \/ \E sender \in Users, amount \in FundAmounts :
           CallFundFaucet(sender, amount)
    \/ \E dt \in TickSeconds : Tick(dt)

\* MockWLD's faucet, its users and the passing of time
SpecFaucet == Init /\ [][NextFaucet]_vars

\* getAmountOut called with amounts up to the width of a uint
CallGetAmountOutUint(sender, amountIn, reserveIn, reserveOut) ==
    View("getAmountOut", sender, <<amountIn, reserveIn, reserveOut>>,
         getAmountOutUint(Cur, amountIn, reserveIn, reserveOut))

NextPricing ==
    \E sender \in Users, amountIn \in WideAmounts,
       reserveIn \in WideReserves, reserveOut \in WideReserves :
        CallGetAmountOutUint(sender, amountIn, reserveIn, reserveOut)

\* the pricing function on inputs of every size
SpecPricing == Init /\ [][NextPricing]_vars

---------------------------------------------------------------------------
(* Swaps of a pool whose output token calls the recipient back from        *)
(* transfer(), as the IERC20 the constructor is given may.  The swap stops *)
(* after its two transfers, the recipient's callback runs, and the swap    *)
(* resumes at "Update reserves".                                           *)

\* a swap runs up to the end of its transfers and the callback starts
BeginSwap(op, sender, amountIn, minAmountOut, to, b) ==
    /\ ~frame.open
    /\ nOps < MaxHookOps
    /\ b.ok
    /\ Store(b.s)
    /\ frame' = [open |-> TRUE, op |-> op, pre |-> Cur, sender |-> sender,
                 amountIn |-> amountIn, minAmountOut |-> minAmountOut,
                 amountOut |-> b.ret[1], to |-> to, nested |-> 0]
    /\ nOps' = nOps + 1
    /\ UNCHANGED <<last, helper, now, faucetClaims>>

BeginSwapToken0ForToken1(sender, amountIn, minAmountOut, to) ==
    BeginSwap("swapToken0ForToken1", sender, amountIn, minAmountOut, to,
              swap0Begin(Cur, sender, amountIn, minAmountOut, to))

BeginSwapToken1ForToken0(sender, amountIn, minAmountOut, to) ==
    BeginSwap("swapToken1ForToken0", sender, amountIn, minAmountOut, to,
              swap1Begin(Cur, sender, amountIn, minAmountOut, to))

\* the recipient's callback calls the pool; a call that reverts is caught
Nested(op, args, to, r) ==
    /\ frame.open
    /\ frame.nested < MaxNested
    /\ Finish(op, frame.to, args, to, r)
    /\ frame' = [frame EXCEPT !.nested = @ + 1]
    /\ UNCHANGED <<nOps, helper, now, faucetClaims>>

NestedAddLiquidity(amount0, amount1, to) ==
    Nested("addLiquidity", <<amount0, amount1>>, to,
           addLiquidity(Cur, frame.to, amount0, amount1, to))

NestedRemoveLiquidity(liquidityAmount, to) ==
    Nested("removeLiquidity", <<liquidityAmount>>, to,
           removeLiquidity(Cur, frame.to, liquidityAmount, to))

NestedSwapToken0ForToken1(amountIn, minAmountOut, to) ==
    Nested("swapToken0ForToken1", <<amountIn, minAmountOut>>, to,
           swapToken0ForToken1(Cur, frame.to, amountIn, minAmountOut, to))

NestedSwapToken1ForToken0(amountIn, minAmountOut, to) ==
    Nested("swapToken1ForToken0", <<amountIn, minAmountOut>>, to,
           swapToken1ForToken0(Cur, frame.to, amountIn, minAmountOut, to))

\* the callback has returned: the swap updates the reserves and emits its
\* event, or panics and reverts everything since it began
EndSwap ==
    /\ frame.open
    /\ LET r == IF frame.op = "swapToken0ForToken1"
                THEN swap0End(frame.pre, Cur, frame.sender, frame.amountIn,
                              frame.amountOut)
                ELSE swap1End(frame.pre, Cur, frame.sender, frame.amountIn,
                              frame.amountOut)
       IN Finish(frame.op, frame.sender, <<frame.amountIn, frame.minAmountOut>>,
                 frame.to, r)
    /\ frame' = NoFrame
    /\ UNCHANGED <<nOps, helper, now, faucetClaims>>

NextHooks ==
    \/ nOps < MaxHookOps /\ Next
    \/ \E sender \in Users, a \in HookSwapArgs, to \in Users :
           BeginSwapToken0ForToken1(sender, a[1], a[2], to)
    \/ \E sender \in Users, a \in HookSwapArgs, to \in Users :
           BeginSwapToken1ForToken0(sender, a[1], a[2], to)
    \/ \E a \in AddArgs, to \in Users : NestedAddLiquidity(a[1], a[2], to)
    \/ \E to \in Users :
           \E liquidityAmount \in RemoveAmounts(frame.to) :
               NestedRemoveLiquidity(liquidityAmount, to)
    \/ \E a \in HookSwapArgs, to \in Users :
           NestedSwapToken0ForToken1(a[1], a[2], to)
    \/ \E a \in HookSwapArgs, to \in Users :
           NestedSwapToken1ForToken0(a[1], a[2], to)
    \/ EndSwap

\* the pool and its users, with tokens that call their recipient back
SpecHooks == Init /\ [][NextHooks]_vars

---------------------------------------------------------------------------
(* Properties *)

RECURSIVE SumOver(_, _)
SumOver(f, S) ==
    IF S = {} THEN 0
    ELSE LET a == CHOOSE x \in S : TRUE IN f[a] + SumOver(f, S \ {a})

Storage == <<reserve0, reserve1, totalLiquidity, liquidity, balanceOf, allowance>>

\* this step is a transaction sent to the pool, by a user or by the helper;
\* last' then holds its arguments, its outcome and the event it emitted
HelperSwapStep == helper.pc = "approved" /\ helper'.pc = "done"

Tx == nOps' = nOps + 1 \/ HelperSwapStep

SwapTx(op) == Tx /\ last'.op = op

\* this step is a pool transaction that succeeded
Committed == Tx /\ last'.err = ErrNone

\* this step is a successful swap of `tokenIn`
SwapCommitted(tokenIn) ==
    /\ Committed
    /\ last'.event.name = "TokensSwapped"
    /\ last'.event.tokenIn = tokenIn

\* C1: every successful swap, in either direction, with amountIn > 0 leaves
\* reserve0 * reserve1 strictly greater than it found it.
C1_ProductGrows ==
    [][(Committed /\ last'.event.name = "TokensSwapped"
          /\ last'.event.amountIn > 0)
       => reserve0' * reserve1' > reserve0 * reserve1]_vars

C1_Witness ==
    /\ last.op = "swapToken1ForToken0"
    /\ last.err = ErrNone
    /\ last.ret[1] > 0

\* C2: the share balances of all owners add up to totalLiquidity, so
\* totalLiquidity > 0 exactly when some owner holds a positive balance.
C2_SharesSumToTotal ==
    /\ SumOver(liquidity, Addresses) = totalLiquidity
    /\ (totalLiquidity > 0) <=> (\E a \in Addresses : liquidity[a] > 0)

C2_Witness ==
    /\ liquidity["alice"] > 0
    /\ liquidity["bob"] > 0
    /\ liquidity["alice"] # liquidity["bob"]

\* C3: a failing call of a pool operation changes no reserve, no share
\* balance, no token balance and no allowance.
C3_FailureChangesNothing ==
    [][(last'.err # ErrNone) => UNCHANGED Storage]_vars

C3_Witness ==
    /\ last.op = "addLiquidity"
    /\ last.err = ErrMinted
    /\ totalLiquidity > 0

\* the pool's price for amountIn, as the design states it
ExactOut(amountIn, reserveIn, reserveOut) ==
    (amountIn * 9970 * reserveOut) \div (reserveIn * 10000 + amountIn * 9970)

\* C7: in both directions the amountOut of a successful swap is
\* floor(amountIn * 9970 * reserveOut / (reserveIn * 10000 + amountIn * 9970))
\* on the reserves before the call, and is what getAmountOut returns for them.
C7_SwapPaysQuotedFormula ==
    [][/\ SwapCommitted("token0") =>
            /\ last'.ret[1] = ExactOut(last'.event.amountIn, reserve0, reserve1)
            /\ last'.ret[1] =
                   getAmountOut(last'.event.amountIn, reserve0, reserve1).amountOut
       /\ SwapCommitted("token1") =>
            /\ last'.ret[1] = ExactOut(last'.event.amountIn, reserve1, reserve0)
            /\ last'.ret[1] =
                   getAmountOut(last'.event.amountIn, reserve1, reserve0).amountOut
      ]_vars

C7_Witness ==
    /\ last.event.name = "TokensSwapped"
    /\ last.event.tokenIn = "token0"
    /\ last.event.amountIn = 100
    /\ last.ret[1] > 1

\* the pool's price for the swap this step is, on the reserves before it
Priced(reserveIn, reserveOut) == ExactOut(last'.args[1], reserveIn, reserveOut)

\* C5: a successful swap pays the recipient amountOut >= minAmountOut and a
\* swap priced below minAmountOut fails with "Insufficient output amount";
\* whatever other callers did since the helper's quote, the helper's swap
\* pays the signer at least quote.minOutput or fails with nothing changed.
C5_SlippageGuard ==
    [][/\ (SwapTx("swapToken0ForToken1") /\ last'.err = ErrNone) =>
            /\ last'.ret[1] >= last'.args[2]
            /\ SumOver(balanceOf'["token1"], Users)
                 = SumOver(balanceOf["token1"], Users) + last'.ret[1]
       /\ (SwapTx("swapToken1ForToken0") /\ last'.err = ErrNone) =>
            /\ last'.ret[1] >= last'.args[2]
            /\ SumOver(balanceOf'["token0"], Users)
                 = SumOver(balanceOf["token0"], Users) + last'.ret[1]
       /\ (SwapTx("swapToken0ForToken1") /\ last'.args[1] > 0
             /\ reserve0 > 0 /\ reserve1 > 0
             /\ Priced(reserve0, reserve1) < last'.args[2])
          => last'.err = ErrOutput
       /\ (SwapTx("swapToken1ForToken0") /\ last'.args[1] > 0
             /\ reserve0 > 0 /\ reserve1 > 0
             /\ Priced(reserve1, reserve0) < last'.args[2])
          => last'.err = ErrOutput
       /\ HelperSwapStep =>
            /\ last'.args[2] = helper.quote.minOutputWei
            /\ helper.quote.minOutputWei
                 = (helper.quote.expectedOutputWei * 10000) \div 10000
               \/ helper.quote.minOutputWei
                    = (helper.quote.expectedOutputWei * 9850) \div 10000
            /\ \/ /\ helper'.success
                  /\ balanceOf'["token1"][Signer]
                       >= balanceOf["token1"][Signer] + helper.quote.minOutputWei
               \/ /\ ~helper'.success
                  /\ UNCHANGED Storage
      ]_vars

\* the helper's swap went through at a worse price than it was quoted:
\* the pool moved between the quote and the swap
C5_Witness ==
    /\ helper.pc = "done"
    /\ helper.success
    /\ helper.amountOut < helper.quote.expectedOutputWei
    /\ helper.amountOut >= helper.quote.minOutputWei

\* the helper's swap was refused because the pool had moved
C5_WitnessRefused ==
    /\ helper.pc = "done"
    /\ ~helper.success
    /\ last.err = ErrOutput

\* C6: getAmountOut on the current reserves, then the swap in that direction
\* with the same amountIn and minAmountOut = the quoted value, with no state
\* change in between, does not fail with "Insufficient output amount".
C6_QuoteThenSwap ==
    [][/\ (SwapTx("swapToken0ForToken1")
             /\ getAmountOut(last'.args[1], reserve0, reserve1).ok
             /\ last'.args[2]
                  = getAmountOut(last'.args[1], reserve0, reserve1).amountOut)
          => last'.err # ErrOutput
       /\ (SwapTx("swapToken1ForToken0")
             /\ getAmountOut(last'.args[1], reserve1, reserve0).ok
             /\ last'.args[2]
                  = getAmountOut(last'.args[1], reserve1, reserve0).amountOut)
          => last'.err # ErrOutput
      ]_vars

\* a swap called with the quote as its minimum went through and paid it
C6_Witness ==
    /\ last.op = "swapToken1ForToken0"
    /\ last.err = ErrNone
    /\ last.args[2] > 0
    /\ last.ret[1] = last.args[2]

\* C4 as claimed: between a swap's read of the reserves and its write of
\* the updated reserves no other pool operation executes, a call re-entering
\* the pool from the swap's token transfers included: while a swap is between
\* its transfers and its reserve update nothing else touches the pool, and
\* the reserves the swap then writes are the ones it read, plus amountIn and
\* minus amountOut.
C4_NoIntermediateState ==
    [][frame.open =>
         /\ frame'.open => UNCHANGED Storage
         /\ (~frame'.open /\ last'.err = ErrNone) =>
              IF frame.op = "swapToken0ForToken1"
              THEN /\ reserve0' = frame.pre.reserve0 + frame.amountIn
                   /\ reserve1' = frame.pre.reserve1 - frame.amountOut
              ELSE /\ reserve1' = frame.pre.reserve1 + frame.amountIn
                   /\ reserve0' = frame.pre.reserve0 - frame.amountOut
      ]_vars

\* the output the design's "fee first" wording gives: the constant-product
\* price of amountInAfterFee = floor(amountIn * 9970 / 10000)
FeeFirstOut(amountIn, reserveIn, reserveOut) ==
    LET amountInAfterFee == (amountIn * 9970) \div 10000 IN
    (amountInAfterFee * reserveOut) \div (reserveIn + amountInAfterFee)

\* C8 as claimed: the pool pays the constant-product output of the floored
\* amountInAfterFee.
C8_FeeFlooredFirst ==
    [][/\ SwapCommitted("token0") =>
            last'.ret[1] = FeeFirstOut(last'.event.amountIn, reserve0, reserve1)
       /\ SwapCommitted("token1") =>
            last'.ret[1] = FeeFirstOut(last'.event.amountIn, reserve1, reserve0)
      ]_vars

\* C8, amended: the fee-adjusted input amountIn * 9970 is not divided (and
\* so not floored) before pricing; the one floor division of
\* amountIn * 9970 * reserveOut by reserveIn * 10000 + amountIn * 9970 pays
\* at least the output of the floored amountInAfterFee.
C8_FeeNotFloored ==
    [][/\ SwapCommitted("token0") =>
            LET amountInWithFee == last'.event.amountIn * 9970 IN
            /\ last'.ret[1] =
                 (amountInWithFee * reserve1)
                     \div (reserve0 * 10000 + amountInWithFee)
            /\ last'.ret[1] >= FeeFirstOut(last'.event.amountIn, reserve0, reserve1)
       /\ SwapCommitted("token1") =>
            LET amountInWithFee == last'.event.amountIn * 9970 IN
            /\ last'.ret[1] =
                 (amountInWithFee * reserve0)
                     \div (reserve1 * 10000 + amountInWithFee)
            /\ last'.ret[1] >= FeeFirstOut(last'.event.amountIn, reserve1, reserve0)
      ]_vars

\* a swap of 1 whose fee-first price would be 0 paid out
C8_Witness ==
    /\ last.event.name = "TokensSwapped"
    /\ last.event.amountIn = 1
    /\ last.ret[1] > 0

\* this step is swapToken0ForToken1 with amountIn = 100 on reserves
\* (1000, 1000), succeeding
C9_Scenario ==
    /\ reserve0 = 1000 /\ reserve1 = 1000
    /\ SwapCommitted("token0")
    /\ last'.event.amountIn = 100

\* C9 as claimed: it pays 499 and leaves the reserves at (1100, 501).
C9_Pays499 ==
    [][C9_Scenario =>
         last'.ret[1] = 499 /\ reserve0' = 1100 /\ reserve1' = 501]_vars

\* C9, amended: swapping amountIn = 100 of token A for token B on reserves
\* (1000, 1000) pays floor(997000000 / 10997000) = 90 and leaves the
\* reserves at (1100, 910).
C9_Pays90 ==
    [][C9_Scenario =>
         last'.ret[1] = 90 /\ reserve0' = 1100 /\ reserve1' = 910]_vars

C9_Witness ==
    /\ last.op = "swapToken0ForToken1"
    /\ last.args[1] = 100
    /\ last.err = ErrNone
    /\ reserve0 = 1100
    /\ reserve1 = 910
    /\ totalLiquidity = 1000

\* C10: no successful swap leaves its output reserve at 0: a swap priced at
\* reserveOut or more fails with "Insufficient liquidity", and after every
\* successful swap both reserves are at least 1.
C10_NeverDrained ==
    [][/\ (Committed /\ last'.event.name = "TokensSwapped") =>
            reserve0' >= 1 /\ reserve1' >= 1
       /\ (SwapTx("swapToken0ForToken1") /\ last'.args[1] > 0
             /\ reserve0 > 0 /\ reserve1 > 0
             /\ Priced(reserve0, reserve1) >= reserve1
             /\ Priced(reserve0, reserve1) >= last'.args[2])
          => last'.err = ErrLiquidity
       /\ (SwapTx("swapToken1ForToken0") /\ last'.args[1] > 0
             /\ reserve0 > 0 /\ reserve1 > 0
             /\ Priced(reserve1, reserve0) >= reserve0
             /\ Priced(reserve1, reserve0) >= last'.args[2])
          => last'.err = ErrLiquidity
      ]_vars

\* a swap took all but one unit of the output reserve
C10_Witness ==
    /\ last.event.name = "TokensSwapped"
    /\ last.event.tokenOut = "token1"
    /\ last.ret[1] > 1
    /\ reserve1 = 1

\* a transaction calling `op` ends in this step
CallOf(op) == Tx /\ last'.op = op

\* C11: a successful swap raises the input reserve by the full amountIn, fee
\* included, lowers the output reserve by exactly amountOut, and leaves
\* totalLiquidity and every share balance as they were.
C11_SwapEffects ==
    [][/\ SwapCommitted("token0") =>
            /\ last'.event.amountIn = last'.args[1]
            /\ reserve0' = reserve0 + last'.args[1]
            /\ reserve1' = reserve1 - last'.ret[1]
            /\ UNCHANGED <<totalLiquidity, liquidity>>
       /\ SwapCommitted("token1") =>
            /\ last'.event.amountIn = last'.args[1]
            /\ reserve1' = reserve1 + last'.args[1]
            /\ reserve0' = reserve0 - last'.ret[1]
            /\ UNCHANGED <<totalLiquidity, liquidity>>
      ]_vars

\* a swap of 10 that paid something, on a pool with shares outstanding
C11_Witness ==
    /\ last.event.name = "TokensSwapped"
    /\ last.event.amountIn = 10
    /\ last.event.amountOut > 0
    /\ totalLiquidity > 0

\* this step is a successful addLiquidity on a pool that has shares
LaterDeposit ==
    CallOf("addLiquidity") /\ last'.err = ErrNone /\ totalLiquidity > 0

Min(a, b) == IF a < b THEN a ELSE b

\* the shares a later deposit of (amountA, amountB) is due
SharesDue(amountA, amountB) ==
    Min((amountA * totalLiquidity) \div reserve0,
        (amountB * totalLiquidity) \div reserve1)

Funded(t, amount) ==
    /\ balanceOf[t][last'.sender] >= amount
    /\ allowance[t][last'.sender] >= amount

\* C14 as claimed: addLiquidity fails only for a zero amount ("Insufficient
\* amounts") or for a first deposit whose share calculation is 0
\* ("Insufficient liquidity minted"); on a pool with shares every call with
\* positive amounts by a caller holding and having approved them succeeds.
C14_TwoFailureCases ==
    [][CallOf("addLiquidity") =>
         LET amountA == last'.args[1]
             amountB == last'.args[2]
         IN
         /\ (amountA = 0 \/ amountB = 0) => last'.err = ErrAmounts
         /\ (last'.err # ErrNone /\ amountA > 0 /\ amountB > 0
               /\ Funded("token0", amountA) /\ Funded("token1", amountB))
            => (totalLiquidity = 0 /\ last'.err = ErrMinted)
         /\ (totalLiquidity > 0 /\ amountA > 0 /\ amountB > 0
               /\ Funded("token0", amountA) /\ Funded("token1", amountB))
            => last'.err = ErrNone
      ]_vars

\* C14, amended: addLiquidity fails with "Insufficient amounts" when amountA
\* or amountB is 0, and with "Insufficient liquidity minted" when the shares
\* to mint are 0, which for positive amounts happens only on a pool with
\* shares, when min(floor(amountA * T / reserve0), floor(amountB * T /
\* reserve1)) = 0; a first deposit of positive amounts always mints at least
\* one share.  A caller holding and having approved the tokens whose
\* positive amounts earn at least one share succeeds; a caller short of
\* balance or allowance fails in the token's transferFrom.
C14_AddFailures ==
    [][CallOf("addLiquidity") =>
         LET amountA == last'.args[1]
             amountB == last'.args[2]
         IN
         /\ (amountA = 0 \/ amountB = 0) => last'.err = ErrAmounts
         /\ (amountA > 0 /\ amountB > 0
               /\ ~(Funded("token0", amountA) /\ Funded("token1", amountB)))
            => last'.err \in {ErrBalance, ErrAllowance}
         /\ (amountA > 0 /\ amountB > 0
               /\ Funded("token0", amountA) /\ Funded("token1", amountB))
            => IF totalLiquidity = 0 THEN last'.err = ErrNone
               ELSE IF SharesDue(amountA, amountB) = 0
               THEN last'.err = ErrMinted
               ELSE last'.err = ErrNone
      ]_vars

\* a funded deposit of (1, 1) refused on a pool with shares
C14_Witness ==
    /\ last.op = "addLiquidity"
    /\ last.args = <<1, 1>>
    /\ last.err = ErrMinted
    /\ balanceOf["token0"][last.sender] >= 1
    /\ balanceOf["token1"][last.sender] >= 1
    /\ allowance["token0"][last.sender] >= 1
    /\ allowance["token1"][last.sender] >= 1
    /\ reserve0 > 0

\* C15: a successful removeLiquidity(shareAmount) returns
\* floor(shareAmount * reserve0 / T) and floor(shareAmount * reserve1 / T)
\* of the state before the call, sends them to `to`, lowers the reserves by
\* exactly those amounts, and lowers the caller's shares and totalLiquidity
\* by shareAmount.
C15_RemoveEffects ==
    [][(CallOf("removeLiquidity") /\ last'.err = ErrNone) =>
         LET shareAmount == last'.args[1]
             amountA == (shareAmount * reserve0) \div totalLiquidity
             amountB == (shareAmount * reserve1) \div totalLiquidity
         IN
         /\ last'.ret = <<amountA, amountB>>
         /\ reserve0' = reserve0 - amountA
         /\ reserve1' = reserve1 - amountB
         /\ liquidity' = [liquidity EXCEPT ![last'.sender] = @ - shareAmount]
         /\ totalLiquidity' = totalLiquidity - shareAmount
         /\ balanceOf'["token0"][last'.to] = balanceOf["token0"][last'.to] + amountA
         /\ balanceOf'["token1"][last'.to] = balanceOf["token1"][last'.to] + amountB
      ]_vars

\* shares burned for unequal amounts, other shares remaining
C15_Witness ==
    /\ last.op = "removeLiquidity"
    /\ last.err = ErrNone
    /\ last.ret[1] > last.ret[2]
    /\ last.ret[2] > 0
    /\ totalLiquidity > 0

C17_ReservesStayPositive ==
    [][(reserve0 > 0 /\ reserve1 > 0) => (reserve0' > 0 /\ reserve1' > 0)]_vars

\* C17, amended: reserve0 > 0 and reserve1 > 0 hold in every reachable state
\* in which shares are outstanding (totalLiquidity > 0); removing all shares
\* returns the pool to empty, reserve0 = reserve1 = totalLiquidity = 0.
C17_PositiveWhileShares ==
    /\ totalLiquidity > 0 => (reserve0 > 0 /\ reserve1 > 0)
    /\ totalLiquidity = 0 => (reserve0 = 0 /\ reserve1 = 0)

\* the last shares were removed and the pool is empty again
C17_Witness ==
    /\ last.op = "removeLiquidity"
    /\ last.err = ErrNone
    /\ last.ret[1] > 0
    /\ totalLiquidity = 0
    /\ reserve0 = 0
    /\ reserve1 = 0

\* C18: on an empty pool (a reserve equal to 0) every swap with
\* amountIn > 0, in either direction, fails with "Insufficient liquidity"
\* and changes nothing; only a successful addLiquidity takes the pool from
\* empty to seeded.
C18_EmptyPoolRefusesSwaps ==
    [][/\ ((SwapTx("swapToken0ForToken1") \/ SwapTx("swapToken1ForToken0"))
             /\ (reserve0 = 0 \/ reserve1 = 0) /\ last'.args[1] > 0)
          => (last'.err = ErrLiquidity /\ UNCHANGED Storage)
       /\ ((reserve0 = 0 \/ reserve1 = 0) /\ reserve0' > 0 /\ reserve1' > 0)
          => (last'.op = "addLiquidity" /\ last'.err = ErrNone)
      ]_vars

\* a swap of 100 with a minimum of 91 refused for want of liquidity
C18_Witness ==
    /\ last.op = "swapToken1ForToken0"
    /\ last.args = <<100, 91>>
    /\ last.err = ErrLiquidity
    /\ reserve0 = 0

\* the other token
Other(t) == IF t = "token0" THEN "token1" ELSE "token0"

\* storage with the two reserves and the two tokens exchanged
Mirror(s) ==
    [reserve0 |-> s.reserve1, reserve1 |-> s.reserve0,
     totalLiquidity |-> s.totalLiquidity, liquidity |-> s.liquidity,
     balanceOf |-> [t \in Tokens |-> s.balanceOf[Other(t)]],
     allowance |-> [t \in Tokens |-> s.allowance[Other(t)]]]

MirrorEvent(e) ==
    IF e.name = "TokensSwapped"
    THEN [e EXCEPT !.tokenIn = Other(@), !.tokenOut = Other(@)]
    ELSE e

\* the storage after this step
CurNext ==
    [reserve0 |-> reserve0', reserve1 |-> reserve1',
     totalLiquidity |-> totalLiquidity', liquidity |-> liquidity',
     balanceOf |-> balanceOf', allowance |-> allowance']

\* this step's outcome is the mirror image of outcome m
MirrorsOutcome(m) ==
    /\ last'.err = m.err
    /\ last'.ret = m.ret
    /\ last'.event = MirrorEvent(m.event)
    /\ CurNext = Mirror(m.s)

\* C19: swapToken1ForToken0 on a state behaves as swapToken0ForToken1 on the
\* state with reserves and tokens exchanged, and the other way round: same
\* success or failure and error, same amountOut, mirrored reserves and
\* balances, for every amountIn and minAmountOut.
C19_SwapsMirror ==
    [][/\ SwapTx("swapToken1ForToken0") =>
            MirrorsOutcome(swapToken0ForToken1(Mirror(Cur), last'.sender,
                               last'.args[1], last'.args[2], last'.to))
       /\ SwapTx("swapToken0ForToken1") =>
            MirrorsOutcome(swapToken1ForToken0(Mirror(Cur), last'.sender,
                               last'.args[1], last'.args[2], last'.to))
      ]_vars

\* token1 swapped for token0 on reserves that differ
C19_Witness ==
    /\ last.op = "swapToken1ForToken0"
    /\ last.err = ErrNone
    /\ last.ret[1] > 0
    /\ reserve0 + last.ret[1] # reserve1 - last.args[1]

\* C12: addLiquidity on a pool without shares mints exactly
\* floor(sqrt(amountA * amountB)) shares to `to`: the number z it returns is
\* the integer with z * z <= amountA * amountB < (z + 1) * (z + 1), and a
\* first deposit of (1000, 1000) mints 1000.
C12_FirstDepositShares ==
    [][(CallOf("addLiquidity") /\ totalLiquidity = 0 /\ last'.err = ErrNone) =>
         LET y == last'.args[1] * last'.args[2]
             z == last'.ret[1]
         IN
         /\ z * z <= y
         /\ y < (z + 1) * (z + 1)
         /\ liquidity' = [liquidity EXCEPT ![last'.to] = @ + z]
         /\ totalLiquidity' = z
         /\ last'.args = <<1000, 1000>> => z = 1000
      ]_vars

\* a first deposit whose product is not a square
C12_Witness ==
    /\ last.op = "addLiquidity"
    /\ last.err = ErrNone
    /\ totalLiquidity = last.ret[1]
    /\ last.ret[1] > 10
    /\ last.ret[1] * last.ret[1] < last.args[1] * last.args[2]

PoolCalls ==
    {"addLiquidity", "removeLiquidity", "swapToken0ForToken1",
     "swapToken1ForToken0"}

\* this step reports a read-only call
ViewStep(op) == last' # last /\ last'.op = op

\* C20: reserve0 and reserve1 change only in a successful addLiquidity,
\* removeLiquidity or swap; getAmountOut, getPoolInfo and getExchangeRate
\* change no state, getPoolInfo returns the stored reserve0, reserve1 and
\* totalLiquidity, and tokens transferred straight to the pool's address
\* raise its token balance and leave the reserves alone.
C20_ReservesChangeOnlyInPoolCalls ==
    [][/\ (reserve0' # reserve0 \/ reserve1' # reserve1)
          => (last'.op \in PoolCalls /\ last'.err = ErrNone)
       /\ (ViewStep("getAmountOut") \/ ViewStep("getPoolInfo")
             \/ ViewStep("getExchangeRate"))
          => UNCHANGED Storage
       /\ ViewStep("getPoolInfo")
          => /\ last'.ret[1] = reserve0
             /\ last'.ret[2] = reserve1
             /\ last'.ret[3] = totalLiquidity
       /\ (nOps' = nOps + 1 /\ last'.op = "transfer" /\ last'.err = ErrNone)
          => /\ UNCHANGED <<reserve0, reserve1, totalLiquidity, liquidity>>
             /\ \E t \in Tokens :
                  balanceOf'[t][Dex] = balanceOf[t][Dex] + last'.args[1]
      ]_vars

\* a snapshot of a seeded pool that holds more token0 than its reserve
C20_Witness ==
    /\ last.op = "getPoolInfo"
    /\ last.ret[1] = reserve0
    /\ reserve0 > 0
    /\ balanceOf["token0"][Dex] > reserve0

\* C21 as claimed: for every amountIn > 0 and positive reserves that fit
\* the integer width, getAmountOut returns a value: it never fails because
\* an intermediate product exceeds the width.
C21_NoOverflowFailure ==
    [][(ViewStep("getAmountOut") /\ last'.args[1] > 0 /\ last'.args[2] > 0
          /\ last'.args[3] > 0)
       => last'.err = ErrNone]_vars

\* C22: in every reachable state totalLiquidity = 0 iff reserve0 = 0 iff
\* reserve1 = 0; a removeLiquidity of all outstanding shares returns the
\* entire reserves and leaves (0, 0, 0); a successful swap or removal that
\* leaves shares outstanding leaves both reserves positive.
C22_EmptyIffNoShares ==
    /\ [](/\ (totalLiquidity = 0) <=> (reserve0 = 0)
          /\ (reserve0 = 0) <=> (reserve1 = 0))
    /\ [][/\ (CallOf("removeLiquidity") /\ last'.err = ErrNone
                /\ last'.args[1] = totalLiquidity)
             => /\ last'.ret = <<reserve0, reserve1>>
                /\ balanceOf'["token0"][last'.to]
                     = balanceOf["token0"][last'.to] + reserve0
                /\ balanceOf'["token1"][last'.to]
                     = balanceOf["token1"][last'.to] + reserve1
                /\ reserve0' = 0 /\ reserve1' = 0 /\ totalLiquidity' = 0
          /\ (Committed /\ last'.op # "addLiquidity"
                /\ (last'.op = "removeLiquidity"
                      => last'.args[1] < totalLiquidity))
             => (reserve0' > 0 /\ reserve1' > 0 /\ totalLiquidity' > 0)]_vars

\* all shares of a pool whose reserves a swap had made unequal were removed
C22_Witness ==
    /\ last.op = "removeLiquidity"
    /\ last.err = ErrNone
    /\ last.ret[1] # last.ret[2]
    /\ last.ret[2] > 0
    /\ totalLiquidity = 0

\* the product a * b of two numbers below Limb^2, as three base-Limb digits,
\* most significant first (the products compared below exceed 32 bits)
WideMul(a, b) ==
    LET Limb == 4096
        ah == a \div Limb
        al == a % Limb
        bh == b \div Limb
        bl == b % Limb
        low == al * bl
        mid == ah * bl + al * bh + (low \div Limb)
    IN <<ah * bh + (mid \div Limb), mid % Limb, low % Limb>>

\* x >= y for two such products
WideGE(x, y) ==
    \/ x[1] > y[1]
    \/ x[1] = y[1] /\ x[2] > y[2]
    \/ x[1] = y[1] /\ x[2] = y[2] /\ x[3] >= y[3]

\* C23: every successful addLiquidity, removeLiquidity or swap taking
\* (reserve0, reserve1, T) to (reserve0', reserve1', T') with T > 0 and
\* T' > 0 has reserve0' * reserve1' * T^2 >= reserve0 * reserve1 * T'^2.
C23_NoDilution ==
    [][(Committed /\ totalLiquidity > 0 /\ totalLiquidity' > 0) =>
         WideGE(WideMul(reserve0' * reserve1', totalLiquidity * totalLiquidity),
                WideMul(reserve0 * reserve1, totalLiquidity' * totalLiquidity'))]_vars

\* a later deposit in a ratio other than the pool's minted shares
C23_Witness ==
    /\ last.op = "addLiquidity"
    /\ last.err = ErrNone
    /\ last.args = <<500, 400>>
    /\ last.ret[1] < totalLiquidity
    /\ reserve0 # reserve1

\* C24: a share balance decreases only in a successful removeLiquidity sent
\* by its holder, and then by exactly liquidityAmount; a call by X never
\* lowers the shares of Y # X, and `to` receives the withdrawn tokens and
\* keeps its shares.
C24_OnlyOwnSharesBurn ==
    [][/\ \A a \in DOMAIN liquidity :
              liquidity'[a] < liquidity[a] =>
                  /\ CallOf("removeLiquidity")
                  /\ last'.err = ErrNone
                  /\ last'.sender = a
                  /\ liquidity'[a] = liquidity[a] - last'.args[1]
       /\ (CallOf("removeLiquidity") /\ last'.err = ErrNone
             /\ last'.to # last'.sender)
          => /\ liquidity'[last'.to] = liquidity[last'.to]
             /\ balanceOf'["token0"][last'.to]
                  = balanceOf["token0"][last'.to] + last'.ret[1]
             /\ balanceOf'["token1"][last'.to]
                  = balanceOf["token1"][last'.to] + last'.ret[2]
             /\ \A t \in Tokens :
                    balanceOf'[t][last'.sender] = balanceOf[t][last'.sender]]_vars

\* a holder withdrew to another address which holds shares of its own
C24_Witness ==
    /\ last.op = "removeLiquidity"
    /\ last.err = ErrNone
    /\ last.to # last.sender
    /\ liquidity[last.to] > 0
    /\ liquidity[last.sender] > 0

Surplus0 == balanceOf["token0"][Dex] - reserve0

Surplus1 == balanceOf["token1"][Dex] - reserve1

\* C26: the pool's balance of each token is its reserve plus the tokens sent
\* to it directly: never below the reserve, changed relative to the reserve
\* by no pool operation, raised by exactly the amount of a direct transfer;
\* no removeLiquidity and no swap of a funded caller fails for want of
\* tokens to pay out.
C26_BalanceCoversReserve ==
    /\ [](Surplus0 >= 0 /\ Surplus1 >= 0)
    /\ [][/\ (Tx /\ last'.op \in PoolCalls)
             => (Surplus0' = Surplus0 /\ Surplus1' = Surplus1)
          /\ (CallOf("transfer") /\ last'.err = ErrNone)
             => /\ Surplus0' >= Surplus0
                /\ Surplus1' >= Surplus1
                /\ Surplus0' + Surplus1' = Surplus0 + Surplus1 + last'.args[1]
          /\ CallOf("removeLiquidity")
             => last'.err \notin {ErrBalance, ErrAllowance, ErrPanic}
          /\ (CallOf("swapToken0ForToken1") /\ Funded("token0", last'.args[1]))
             => last'.err \notin {ErrBalance, ErrAllowance, ErrPanic}
          /\ (CallOf("swapToken1ForToken0") /\ Funded("token1", last'.args[1]))
             => last'.err \notin {ErrBalance, ErrAllowance, ErrPanic}]_vars

\* a deposit into a pool that had been sent 7 token1 directly: the pool
\* holds its reserve and the 7 tokens
C26_Witness ==
    /\ last.op = "addLiquidity"
    /\ last.err = ErrNone
    /\ reserve1 > 0
    /\ balanceOf["token1"][Dex] = reserve1 + 7
    /\ balanceOf["token0"][Dex] = reserve0

\* C28 as claimed: the expected output of every quote the service returns
\* equals the test's manual calculation on the input and the reserves the
\* quote was taken on.
C28_QuoteEqualsManualCalculation ==
    helper.pc = "quoted" =>
        helper.quote.expectedOutputWei
          = manualCalculation(helper.quote.inputAmountWei,
                              helper.quote.reserve0, helper.quote.reserve1)

\* a faucet() or fundFaucet() transaction ends in this step
TokenTx(op) == nOps' = nOps + 1 /\ last'.op = op

\* C29: any two logged faucet claims of one address are at least
\* faucetCooldown = 3600 seconds apart, and each successful claim moves
\* exactly faucetAmount from the token contract's own balance to the claimer
\* and changes no other balance.
C29_OneClaimPerCooldown ==
    /\ [](\A i \in DOMAIN faucetClaims : \A j \in DOMAIN faucetClaims :
              (i < j /\ faucetClaims[i].recipient = faucetClaims[j].recipient)
                  => faucetClaims[j].time - faucetClaims[i].time >= 3600)
    /\ [][(TokenTx("faucet") /\ last'.err = ErrNone) =>
            /\ Len(faucetClaims') = Len(faucetClaims) + 1
            /\ balanceOf'["token0"][Wld]
                 = balanceOf["token0"][Wld] - faucetAmount
            /\ balanceOf'["token0"][last'.sender]
                 = balanceOf["token0"][last'.sender] + faucetAmount
            /\ \A a \in Addresses \ {Wld, last'.sender} :
                   balanceOf'["token0"][a] = balanceOf["token0"][a]
            /\ balanceOf'["token1"] = balanceOf["token1"]]_vars

\* an address claimed twice, the second time exactly one cooldown later
C29_Witness ==
    /\ Len(faucetClaims) >= 2
    /\ faucetClaims[1].recipient = faucetClaims[2].recipient
    /\ faucetClaims[2].time = faucetClaims[1].time + faucetCooldown
    /\ last.op = "faucet"
    /\ last.err = ErrNone

\* C30 as claimed: a fundFaucet call by an address other than the token's
\* owner fails and leaves every balance as it was.
C30_OnlyOwnerFunds ==
    [][(TokenTx("fundFaucet") /\ last'.sender # Owner)
         => (last'.err # ErrNone /\ balanceOf' = balanceOf)]_vars

====
